---- MODULE Spec2Model ----
(***************************************************************************)
(* monotime: monotonic Time/Duration arithmetic (src/mono.go, src/main.go) *)
(* and the timerfd-backed Ticker (src/main.go).                            *)
(*                                                                         *)
(* The Ticker part models one Ticker after construction: the callers of    *)
(* Stop / Reset / ResetAt, the goroutine started by Ticker.start, the      *)
(* consumer of Ticker.C, and the kernel timer behind Ticker.fd.            *)
(* The arithmetic part applies Add / Sub to inputs drawn from a            *)
(* two's-complement integer domain of Width bits.                          *)
(***************************************************************************)
EXTENDS Integers, FiniteSets, Sequences, TLC

\* ------------------------------------------------------------- bounds

\* Number of goroutines that call Stop / Reset / ResetAt on the Ticker.
NumCallers == 2
\* The monotonic clock runs from 0 to MaxNow.
MaxNow == 2
\* Periods d are drawn from 1..MaxPeriod.
MaxPeriod == 2
\* At most MaxResets calls of Reset / ResetAt in one behaviour.
MaxResets == 1
\* Time and Duration are int64 in the source; the arithmetic is modelled on
\* Width-bit two's-complement integers, the same wraparound at a width whose
\* whole domain can be enumerated.
Width == 4

Callers == 1..NumCallers
Periods == 1..MaxPeriod
\* The no-deadline sentinel passed by Reset and NewTicker, and the absolute
\* deadlines a caller may pass instead.
Deadlines == {-1} \cup (0..MaxNow)

\* ------------------------------------------------- Time / Duration values

MinInt == -(2 ^ (Width - 1))
MaxInt == (2 ^ (Width - 1)) - 1
IntW == MinInt..MaxInt

\* Conversion of an unbounded integer to the machine integer: the wraparound
\* of Go's signed integer arithmetic.
Wrap(x) == ((x - MinInt) % (2 ^ Width)) + MinInt

\* A plausible slip in Add: the duration is applied with the wrong sign.
AddNegated(t, d) == Wrap(t - d)

\* func (t Time) Add(d time.Duration) Time { return t + Time(d) }
Add(t, d) == Wrap(t + d)

\* func (t Time) Sub(tt Time) time.Duration { return time.Duration(t - tt) }
Sub(t, tt) == Wrap(t - tt)

\* Go's % on signed integers (b > 0): the remainder of the division that
\* truncates toward zero, so it has the sign of a.
GoRem(a, b) == IF a >= 0 THEN a % b ELSE -((-a) % b)

\* Truncate with the remainder added instead of taken away.
TruncateAddsRemainder(t, d) ==
    IF d <= 0 THEN t ELSE Add(t, GoRem(t, d))

\* func (t Time) Truncate(d time.Duration) Time:
\* if d <= 0 { return t }; return t.Add(-(time.Duration(t) % d))
Truncate(t, d) ==
    IF d <= 0 THEN t ELSE Add(t, Wrap(-GoRem(t, d)))

\* Round returning the zero Time, not t, for a step d <= 0.
RoundZeroForNoStep(t, d) ==
    IF d <= 0 THEN 0
    ELSE LET r == GoRem(t, d)
         IN  IF Wrap(r * 2) <= d THEN Add(t, Wrap(-r)) ELSE Add(t, Wrap(d - r))

\* Round whose upward branch forgets to take the remainder away.
RoundUpKeepsRemainder(t, d) ==
    IF d <= 0 THEN t
    ELSE LET r == GoRem(t, d)
         IN  IF Wrap(r * 2) <= d THEN Add(t, Wrap(-r)) ELSE Add(t, d)

\* func (t Time) Round(d time.Duration) Time:
\* if d <= 0 { return t }; r := time.Duration(t) % d
\* if r*2 <= d { return t.Add(-r) }; return t.Add(d - r)
Round(t, d) ==
    IF d <= 0 THEN t
    ELSE LET r == GoRem(t, d)
         IN  IF Wrap(r * 2) <= d THEN Add(t, Wrap(-r)) ELSE Add(t, Wrap(d - r))

\* func (d MonoDuration) Round(m MonoDuration) MonoDuration:
\* return MonoDuration(MonoTime(d).Round(m))
DurationRound(d, mm) == Wrap(Round(Wrap(d), mm))

\* func (d MonoDuration) Truncate(m MonoDuration) MonoDuration:
\* return MonoDuration(MonoTime(d).Truncate(m))
DurationTruncate(d, mm) == Wrap(Truncate(Wrap(d), mm))

\* unix.ClockGettime(unix.CLOCK_MONOTONIC, spec): on success spec holds the
\* clock's reading; on failure an errno is returned and spec stays zero.
ClockGettime(fault, clock) ==
    IF fault THEN [err |-> "errno", spec |-> 0]
             ELSE [err |-> "nil", spec |-> clock]

\* func Now() MonoTime (src/mono.go, the MonoTime variant):
\* _ = unix.ClockGettime(...); return MonoTime(spec.Nano())
NowMonoTime(fault, clock) ==
    [outcome |-> "returned", val |-> ClockGettime(fault, clock).spec]

\* func Now() Time (src/mono.go, the Time variant):
\* err := unix.ClockGettime(...); if err != nil { panic(...) }
\* return Time(spec.Nano())
Now(fault, clock) ==
    LET got == ClockGettime(fault, clock)
    IN  IF got.err # "nil"
        THEN [outcome |-> "panic", val |-> 0]
        ELSE [outcome |-> "returned", val |-> got.spec]

\* ------------------------------------------------------------ the state

VARIABLES
    now,         \* the monotonic clock (CLOCK_MONOTONIC), in periods
    fd,          \* Ticker.fd: the kernel timer behind the handle
    C,           \* Ticker.C: the identity of the notification channel
    chClosed,    \* whether the channel C has been closed
    stopOnce,    \* Ticker.stopOnce: the sync.Once latch of Stop
    m,           \* Ticker.m: the mutex the goroutine holds while it runs
    taskPc,      \* where the goroutine of Ticker.start is
    err,         \* the goroutine's err, as returned by t.fd.Read
    occurances,  \* the goroutine's occurances (the count it read)
    i,           \* the goroutine's loop index i
    consumer,    \* the consumer of C: "away", or "recv" (blocked in <-t.C)
    callerPc,    \* where each caller is inside Stop
    lastRet,     \* the bool the last ResetAt call returned
    lastApi,     \* the exported method the last re-arm was made through
    resets,      \* how many Reset / ResetAt calls have been made
    closes,      \* how many times t.fd.Close() has run
    sent,        \* how many notifications have been sent on C (and received)
    sumRead,     \* the sum of the counts returned by successful reads
    stopReturned, \* whether some call of Stop has returned
    arg,         \* arithmetic: the inputs t, t2, d
    res          \* arithmetic: the last operation applied and its result

tickerVars == <<now, fd, C, chClosed, stopOnce, m, taskPc, err, occurances, i,
                consumer, callerPc, lastRet, lastApi, resets, closes, sent,
                sumRead, stopReturned>>
arithVars == <<arg, res>>
vars == <<now, fd, C, chClosed, stopOnce, m, taskPc, err, occurances, i,
          consumer, callerPc, lastRet, lastApi, resets, closes, sent,
          sumRead, stopReturned, arg, res>>

\* ------------------------------------------------------- error values

\* The values err can hold. os.ErrClosed is the sentinel the goroutine
\* compares against; (*os.File).Read reports every failure except io.EOF as a
\* *os.PathError that wraps the cause.
NilErr == [kind |-> "nil", Err |-> "nil"]
ErrClosed == [kind |-> "sentinel", Err |-> "ErrClosed"]
PathError(cause) == [kind |-> "PathError", Err |-> cause]

\* ------------------------------------------------------ the kernel timer

\* The timer armed at time n with first expiration `first` and period d.
\* A first expiration that is not in the future expires at once, with one
\* expiration per period already elapsed; arming discards the expirations
\* not yet read.
Armed(first, d, n) ==
    IF first > n
    THEN [closed |-> FALSE, next |-> first, period |-> d, ticks |-> 0]
    ELSE LET k == ((n - first) \div d) + 1
         IN  [closed |-> FALSE, next |-> first + (k * d), period |-> d,
              ticks |-> k]

\* Arming for (tt, d): the sentinel (a negative tt) means "d from now".
Arm(tt, d, n) == Armed(IF tt < 0 THEN n + d ELSE tt, d, n)

\* The timer once the clock has reached n: an open timer whose next
\* expiration is n expires once more.
Expire(f, n) ==
    IF ~f.closed /\ f.next = n
    THEN [f EXCEPT !.ticks = @ + 1, !.next = @ + f.period]
    ELSE f

\* The process runs until a goroutine panics: an unrecovered panic ends it.
Alive == taskPc # "panic"

TypeOK ==
    /\ now \in 0..MaxNow
    /\ fd.closed \in BOOLEAN /\ fd.ticks \in Nat /\ fd.period \in Periods
    /\ C \in {0, 1}
    /\ chClosed \in BOOLEAN
    /\ stopOnce.done \in BOOLEAN /\ stopOnce.m \in {0} \cup Callers
    /\ m \in {"free", "task"}
    /\ taskPc \in {"lock", "read", "check", "send", "stopped", "panic"}
    /\ consumer \in {"away", "recv"}
    /\ callerPc \in [Callers -> {"idle", "lock", "f", "unlock"}]
    /\ stopReturned \in BOOLEAN

\* --------------------------------------------------------- construction

\* The arithmetic inputs while the Ticker runs, and before any operation.
NoArg == [t |-> 0, t2 |-> 0, d |-> 0]
NoRes == [op |-> "none", val |-> 0]

\* func NewTickerAt(t MonoTime, d time.Duration) *Ticker
\* The Ticker as NewTickerAt(tt, d) leaves it at time 0: the timer armed and
\* start() run, which makes the channel, publishes it as t.C and starts the
\* goroutine.
NewTickerAt(tt, d) ==
    /\ now = 0
    /\ fd = Arm(tt, d, 0)
    /\ C = 1
    /\ chClosed = FALSE
    /\ stopOnce = [done |-> FALSE, m |-> 0]
    /\ m = "free"
    /\ taskPc = "lock"
    /\ err = NilErr
    /\ occurances = 0
    /\ i = 0
    /\ consumer = "away"
    /\ callerPc = [c \in Callers |-> "idle"]
    /\ lastRet = FALSE
    /\ lastApi = "none"
    /\ resets = 0
    /\ closes = 0
    /\ sent = 0
    /\ sumRead = 0
    /\ stopReturned = FALSE

\* func NewTicker(d time.Duration) *Ticker { return NewTickerAt(-1, d) }
NewTicker(d) == NewTickerAt(-1, d)

Init ==
    /\ \/ \E d \in Periods : NewTicker(d)
       \/ \E tt \in Deadlines, d \in Periods : NewTickerAt(tt, d)
    /\ arg = NoArg
    /\ res = NoRes

\* ------------------------------------------------------- the kernel clock

\* The clock advances by one; the timer expires if its deadline is reached.
Tick ==
    /\ Alive
    /\ now < MaxNow
    /\ now' = now + 1
    /\ fd' = Expire(fd, now + 1)
    /\ UNCHANGED <<C, chClosed, stopOnce, m, taskPc, err, occurances, i,
                   consumer, callerPc, lastRet, lastApi, resets, closes,
                   sent, sumRead, stopReturned, arg, res>>

\* ------------------------------------------- the goroutine of Ticker.start

\* for i = 0; i < occurances; i++ with one send too many.
LoopPcExtra(k, n) == IF k <= n THEN "send" ELSE "read"

\* for i = 0; i < occurances; i++ that gives up one send early.
LoopPcShort(k, n) == IF k + 1 < n THEN "send" ELSE "read"

\* The test of the inner loop with index k and count n: another send, or back
\* to the read at the top of the outer loop.
LoopPc(k, n) == IF k < n THEN "send" ELSE "read"

\* The error t.fd.Read returns on the handle f: a read of a closed file fails
\* with a *PathError wrapping os.ErrClosed.
ReadErr(f) == IF f.closed THEN PathError("ErrClosed") ELSE NilErr

\* t.m.Lock(); defer t.m.Unlock()
TaskLock ==
    /\ Alive
    /\ taskPc = "lock"
    /\ m = "free"
    /\ m' = "task"
    /\ taskPc' = "read"
    /\ UNCHANGED <<now, fd, C, chClosed, stopOnce, err, occurances, i,
                   consumer, callerPc, lastRet, lastApi, resets, closes,
                   sent, sumRead, stopReturned, arg, res>>

\* _, err := t.fd.Read(expirations): blocks until the timer has expired or
\* the handle is closed; a successful read takes the expiration count.
TaskRead ==
    /\ Alive
    /\ taskPc = "read"
    /\ fd.closed \/ fd.ticks > 0
    /\ err' = ReadErr(fd)
    /\ occurances' = IF fd.closed THEN occurances ELSE fd.ticks
    /\ sumRead' = IF fd.closed THEN sumRead ELSE sumRead + fd.ticks
    /\ fd' = IF fd.closed THEN fd ELSE [fd EXCEPT !.ticks = 0]
    /\ taskPc' = "check"
    /\ UNCHANGED <<now, C, chClosed, stopOnce, m, i, consumer, callerPc,
                   lastRet, lastApi, resets, closes, sent, stopReturned,
                   arg, res>>

\* The read fails for a reason other than the close (an environment fault).
TaskReadFault ==
    /\ Alive
    /\ taskPc = "read"
    /\ ~fd.closed
    /\ err' = PathError("EIO")
    /\ taskPc' = "check"
    /\ UNCHANGED <<now, fd, C, chClosed, stopOnce, m, occurances, i, consumer,
                   callerPc, lastRet, lastApi, resets, closes, sent, sumRead,
                   stopReturned, arg, res>>

\* A variant of TaskCheck that treats every read error as the closed
\* condition and leaves the goroutine silently.
TaskCheckExitsOnAnyError ==
    /\ Alive
    /\ taskPc = "check"
    /\ IF err # NilErr
       THEN /\ taskPc' = "stopped"
            /\ m' = "free"
            /\ i' = i
       ELSE /\ taskPc' = LoopPc(0, occurances)
            /\ m' = m
            /\ i' = 0
    /\ UNCHANGED <<now, fd, C, chClosed, stopOnce, err, occurances, consumer,
                   callerPc, lastRet, lastApi, resets, closes, sent, sumRead,
                   stopReturned, arg, res>>

\* if err == os.ErrClosed { break } else if err != nil { panic(err) }, then
\* occurances is decoded and the inner loop starts at i = 0. Leaving the
\* function either way runs the deferred t.m.Unlock().
TaskCheck ==
    /\ Alive
    /\ taskPc = "check"
    /\ IF err = ErrClosed
       THEN /\ taskPc' = "stopped"
            /\ m' = "free"
            /\ i' = i
       ELSE IF err # NilErr
       THEN /\ taskPc' = "panic"
            /\ m' = "free"
            /\ i' = i
       ELSE /\ taskPc' = LoopPc(0, occurances)
            /\ m' = m
            /\ i' = 0
    /\ UNCHANGED <<now, fd, C, chClosed, stopOnce, err, occurances, consumer,
                   callerPc, lastRet, lastApi, resets, closes, sent, sumRead,
                   stopReturned, arg, res>>

\* ch <- struct{}{} meeting the consumer's <-t.C: the channel is unbuffered,
\* so the send completes only together with a receive; then i++.
Deliver ==
    /\ Alive
    /\ taskPc = "send"
    /\ consumer = "recv"
    /\ ~chClosed
    /\ sent' = sent + 1
    /\ i' = i + 1
    /\ taskPc' = LoopPc(i + 1, occurances)
    /\ consumer' = "away"
    /\ UNCHANGED <<now, fd, C, chClosed, stopOnce, m, err, occurances,
                   callerPc, lastRet, lastApi, resets, closes, sumRead,
                   stopReturned, arg, res>>

\* ------------------------------------------------------------ the consumer

\* The consumer starts a receive <-t.C and blocks in it.
ConsumerRecv ==
    /\ Alive
    /\ consumer = "away"
    /\ consumer' = "recv"
    /\ UNCHANGED <<now, fd, C, chClosed, stopOnce, m, taskPc, err, occurances,
                   i, callerPc, lastRet, lastApi, resets, closes, sent,
                   sumRead, stopReturned, arg, res>>

\* --------------------------------------------------------------- Stop

InStop(c) == callerPc[c] \in {"lock", "f", "unlock"}

\* A caller calls t.Stop(), which calls t.stopOnce.Do(...): with the latch
\* already set Do returns at once, and so does Stop; otherwise the caller
\* goes on to take the latch's mutex.
StopCall(c) ==
    /\ Alive
    /\ callerPc[c] = "idle"
    /\ callerPc' = [callerPc EXCEPT ![c] = IF stopOnce.done THEN "idle" ELSE "lock"]
    /\ stopReturned' = (stopReturned \/ stopOnce.done)
    /\ UNCHANGED <<now, fd, C, chClosed, stopOnce, m, taskPc, err, occurances,
                   i, consumer, lastRet, lastApi, resets, closes, sent,
                   sumRead, arg, res>>

\* stopOnce.Do: the caller takes the latch's mutex (waiting while another
\* caller holds it) and tests the latch again under it.
OnceLock(c) ==
    /\ Alive
    /\ callerPc[c] = "lock"
    /\ stopOnce.m = 0
    /\ stopOnce' = [stopOnce EXCEPT !.m = c]
    /\ callerPc' = [callerPc EXCEPT ![c] = IF stopOnce.done THEN "unlock" ELSE "f"]
    /\ UNCHANGED <<now, fd, C, chClosed, m, taskPc, err, occurances, i,
                   consumer, lastRet, lastApi, resets, closes, sent, sumRead,
                   stopReturned, arg, res>>

\* The function given to stopOnce.Do with a close(ch) added to it.
OnceFClosesChannel(c) ==
    /\ Alive
    /\ callerPc[c] = "f"
    /\ fd' = [fd EXCEPT !.closed = TRUE]
    /\ chClosed' = TRUE
    /\ closes' = closes + 1
    /\ stopOnce' = [stopOnce EXCEPT !.done = TRUE]
    /\ callerPc' = [callerPc EXCEPT ![c] = "unlock"]
    /\ UNCHANGED <<now, C, m, taskPc, err, occurances, i, consumer,
                   lastRet, lastApi, resets, sent, sumRead, stopReturned, arg, res>>

\* The function given to stopOnce.Do: t.fd.Close(); on its return the latch
\* is set.
OnceF(c) ==
    /\ Alive
    /\ callerPc[c] = "f"
    /\ fd' = [fd EXCEPT !.closed = TRUE]
    /\ closes' = closes + 1
    /\ stopOnce' = [stopOnce EXCEPT !.done = TRUE]
    /\ callerPc' = [callerPc EXCEPT ![c] = "unlock"]
    /\ UNCHANGED <<now, C, chClosed, m, taskPc, err, occurances, i, consumer,
                   lastRet, lastApi, resets, sent, sumRead, stopReturned, arg, res>>

\* stopOnce.Do releases the latch's mutex and returns, and Stop returns to
\* its caller.
OnceUnlock(c) ==
    /\ Alive
    /\ callerPc[c] = "unlock"
    /\ stopOnce' = [stopOnce EXCEPT !.m = IF @ = c THEN 0 ELSE @]
    /\ callerPc' = [callerPc EXCEPT ![c] = "idle"]
    /\ stopReturned' = TRUE
    /\ UNCHANGED <<now, fd, C, chClosed, m, taskPc, err, occurances, i,
                   consumer, lastRet, lastApi, resets, closes, sent, sumRead,
                   arg, res>>

\* func (t *Ticker) Stop(): the steps of one call after it is made.
Stop(c) == OnceLock(c) \/ OnceF(c) \/ OnceUnlock(c)

\* ----------------------------------------------------- Reset / ResetAt

\* func (t *Ticker) ResetAt(tt MonoTime, d time.Duration) bool
\* Re-arms the timer for (tt, d) and returns whether it was active; on a
\* closed handle the re-arm is a no-op.
ResetAt(c, tt, d) ==
    /\ Alive
    /\ callerPc[c] = "idle"
    /\ resets < MaxResets
    /\ resets' = resets + 1
    /\ fd' = IF fd.closed THEN fd ELSE Arm(tt, d, now)
    /\ lastRet' = ~fd.closed
    /\ UNCHANGED <<now, C, chClosed, stopOnce, m, taskPc, err, occurances, i,
                   consumer, callerPc, closes, sent, sumRead, stopReturned, arg,
                   res>>

\* Reset passing the zero Time, an absolute deadline, for the sentinel.
ResetZeroDeadline(c, d) == ResetAt(c, 0, d)

\* func (t *Ticker) Reset(d time.Duration) bool { return t.ResetAt(-1, d) }
Reset(c, d) == ResetAt(c, -1, d)

CallReset == \E c \in Callers, d \in Periods : Reset(c, d) /\ lastApi' = "Reset"

CallResetAt ==
    \E c \in Callers, tt \in Deadlines, d \in Periods :
        ResetAt(c, tt, d) /\ lastApi' = "ResetAt"

\* ------------------------------------------------------ specifications

CallStop == \E c \in Callers : StopCall(c)
StopStep == \E c \in Callers : Stop(c)
TaskStep == TaskLock \/ TaskRead \/ TaskCheck

\* Every step of the Ticker except a faulting read.
NextNoFault ==
    \/ Tick
    \/ TaskStep
    \/ Deliver
    \/ ConsumerRecv
    \/ CallStop
    \/ StopStep
    \/ CallReset
    \/ CallResetAt

Next == NextNoFault \/ TaskReadFault

Spec == Init /\ [][Next]_vars

\* The Go scheduler runs every runnable goroutine: the goroutine of start and
\* each caller inside Stop keep taking their steps, and a send that a
\* receiver is waiting for completes. Nothing obliges the consumer to start
\* a receive, a caller to call, or the clock to be observed advancing.
FairSpec ==
    /\ Init
    /\ [][NextNoFault]_vars
    /\ WF_vars(TaskStep)
    /\ WF_vars(Deliver)
    /\ \A c \in Callers : WF_vars(Stop(c))

\* The Ticker left running: nobody calls Stop, Reset or ResetAt, no read
\* faults, and the consumer keeps receiving.
NextRunning == Tick \/ TaskStep \/ Deliver \/ ConsumerRecv

LiveSpec ==
    /\ Init
    /\ [][NextRunning]_vars
    /\ WF_vars(TaskStep)
    /\ WF_vars(Deliver)
    /\ WF_vars(ConsumerRecv)

\* ------------------------------------------------------------ arithmetic

ArithInit ==
    /\ NewTicker(1)
    /\ arg \in [t : IntW, t2 : IntW, d : IntW]
    /\ res = NoRes

\* t.Add(d)
ApplyAdd ==
    /\ res' = [op |-> "Add", val |-> Add(arg.t, arg.d)]
    /\ UNCHANGED <<tickerVars, arg>>

\* t2.Sub(t)
ApplySub ==
    /\ res' = [op |-> "Sub", val |-> Sub(arg.t2, arg.t)]
    /\ UNCHANGED <<tickerVars, arg>>

\* t.Add(d).Sub(t)
ApplyAddSub ==
    /\ res' = [op |-> "AddSub", val |-> Sub(Add(arg.t, arg.d), arg.t)]
    /\ UNCHANGED <<tickerVars, arg>>

\* t.Add(t2.Sub(t))
ApplySubAdd ==
    /\ res' = [op |-> "SubAdd", val |-> Add(arg.t, Sub(arg.t2, arg.t))]
    /\ UNCHANGED <<tickerVars, arg>>

\* t.Truncate(d)
ApplyTruncate ==
    /\ res' = [op |-> "Truncate", val |-> Truncate(arg.t, arg.d)]
    /\ UNCHANGED <<tickerVars, arg>>

\* t.Round(d)
ApplyRound ==
    /\ res' = [op |-> "Round", val |-> Round(arg.t, arg.d)]
    /\ UNCHANGED <<tickerVars, arg>>

\* t.Round(d).Round(d)
ApplyRoundRound ==
    /\ res' = [op |-> "RoundRound", val |-> Round(Round(arg.t, arg.d), arg.d)]
    /\ UNCHANGED <<tickerVars, arg>>

\* MonoDuration(t).Round(d)
ApplyDurationRound ==
    /\ res' = [op |-> "DurationRound", val |-> DurationRound(arg.t, arg.d)]
    /\ UNCHANGED <<tickerVars, arg>>

\* MonoDuration(t).Truncate(d)
ApplyDurationTruncate ==
    /\ res' = [op |-> "DurationTruncate", val |-> DurationTruncate(arg.t, arg.d)]
    /\ UNCHANGED <<tickerVars, arg>>

\* Now() of the MonoTime variant, with the clock at t, failing or not.
ApplyNowMonoTime ==
    /\ \E fault \in BOOLEAN :
          res' = [op |-> "Now", variant |-> "MonoTime", fault |-> fault,
                  outcome |-> NowMonoTime(fault, arg.t).outcome,
                  val |-> NowMonoTime(fault, arg.t).val]
    /\ UNCHANGED <<tickerVars, arg>>

\* Now() of the Time variant, with the clock at t, failing or not.
ApplyNow ==
    /\ \E fault \in BOOLEAN :
          res' = [op |-> "Now", variant |-> "Time", fault |-> fault,
                  outcome |-> Now(fault, arg.t).outcome,
                  val |-> Now(fault, arg.t).val]
    /\ UNCHANGED <<tickerVars, arg>>

ArithNext ==
    \/ ApplyAdd
    \/ ApplySub
    \/ ApplyAddSub
    \/ ApplySubAdd
    \/ ApplyTruncate
    \/ ApplyRound
    \/ ApplyRoundRound
    \/ ApplyDurationRound
    \/ ApplyDurationTruncate
    \/ ApplyNowMonoTime
    \/ ApplyNow

ArithSpec == ArithInit /\ [][ArithNext]_vars

\* ------------------------------------------------------------ properties

\* The read that fails because Stop closed the handle has ended the process.
PanickedOnClose == taskPc = "panic" /\ err.Err = "ErrClosed"

\* C1: for any number of calls to Stop, in any interleaving, t.fd.Close() is
\* executed exactly once and every call returns normally: Close never runs
\* twice, and every caller inside Stop comes back out of it with the handle
\* closed once.
C1_CloseOnceAllReturn ==
    /\ [](closes <= 1)
    /\ \A c \in Callers : InStop(c) ~> (callerPc[c] = "idle" /\ closes = 1)

\* C2: once a call to Stop has returned, no notification is sent on (or
\* received from) the channel again, also when Stop came in the middle of a
\* batch or while the goroutine was blocked in a send.
C2_NoSendAfterStop == [][stopReturned => sent' = sent]_vars

\* C3: in every reachable state the notification channel is open (and is the
\* channel start made): no operation closes it.
C3_ChannelNeverClosed == C = 1 /\ ~chClosed

\* C3 witness: Stop has closed the handle and returned, a re-arm was made
\* and notifications were delivered.
C3_Witness == fd.closed /\ stopReturned /\ resets > 0 /\ sent > 0 /\ ~chClosed

\* C4: once Stop has returned, the goroutine eventually reaches its terminal
\* stopped state, whatever it was doing and whether or not the consumer goes
\* on receiving.
C4_TaskExitsAfterStop == stopReturned ~> (taskPc = "stopped")

\* C5: every call to Stop returns to its caller, without waiting for the
\* goroutine or the consumer.
C5_StopReturns == \A c \in Callers : (callerPc[c] # "idle") ~> (callerPc[c] = "idle")

\* C6: the goroutine sends exactly the count it read, one notification at a
\* time, before it reads again: the notifications sent never exceed the sum
\* of the counts read, fall short of it by exactly the rest of the batch
\* while a batch is being delivered, and equal it whenever the goroutine is
\* back at the read.
C6_SentMatchesRead ==
    /\ sent <= sumRead
    /\ taskPc = "send" => (i < occurances /\ sumRead - sent = occurances - i)
    /\ taskPc = "read" => sent = sumRead

\* C6 witness: a coalesced batch of two has been delivered in full and the
\* goroutine is back at the read.
C6_Witness == taskPc = "read" /\ occurances = 2 /\ i = 2 /\ sent >= 2

\* Without a re-arm every expiration of the timer is either still pending in
\* the handle or was returned by a read.
Fired == sumRead + fd.ticks
MaxFirings == MaxNow + 1

\* C7: with the Ticker never stopped and the consumer receiving, once the
\* timer has fired k times the consumer eventually has received at least k
\* notifications.
C7_FiringsDelivered ==
    \A k \in 1..MaxFirings : (Fired >= k) ~> (sent >= k)

\* C7 witness: three firings, three notifications received.
C7_Witness == Fired >= 3 /\ sent >= 3

C9_ResetStopNoPanic ==
    (resets > 0) => (~PanickedOnClose /\ (closes > 0 => fd.closed))

\* C10: Add and Sub are exact inverses under wraparound:
\* t.Add(d).Sub(t) = d and t.Add(t2.Sub(t)) = t2 for all t, t2, d.
C10_AddSubInverse ==
    /\ res.op = "AddSub" => res.val = arg.d
    /\ res.op = "SubAdd" => res.val = arg.t2

\* C10 witness: the round trip was applied to a sum that overflows.
C10_Witness ==
    /\ res.op = "AddSub" /\ arg.t + arg.d > MaxInt /\ res.val = arg.d

\* C11: Truncate rounds down: for every t (positive, zero or negative) and
\* every d > 0, t.Truncate(d) <= t.
C11_TruncateRoundsDown ==
    (res.op = "Truncate" /\ arg.d > 0) => res.val <= arg.t

\* C12: for every t and every d > 0, t.Truncate(d) is an exact multiple of d
\* (its signed remainder by d is 0) and t - t.Truncate(d) < d.
C12_TruncateOnGrid ==
    (res.op = "Truncate" /\ arg.d > 0) =>
        /\ GoRem(res.val, arg.d) = 0
        /\ Sub(arg.t, res.val) < arg.d

\* C12 witness: a negative t off the grid of a step d > 1 was truncated.
C12_Witness ==
    /\ res.op = "Truncate" /\ arg.d > 1 /\ arg.t < 0
    /\ GoRem(arg.t, arg.d) # 0 /\ GoRem(res.val, arg.d) = 0

\* The distance between two machine integers.
Dist(a, b) == IF a >= b THEN a - b ELSE b - a

\* C13: Round returns a nearest multiple: for every t and every d > 0,
\* |t.Round(d) - t| <= d/2.
C13_RoundNearest ==
    (res.op = "Round" /\ arg.d > 0) => 2 * Dist(res.val, arg.t) <= arg.d

\* C14: Round breaks ties upward: when r = t % d has r*2 = d, t.Round(d) is
\* the later multiple, t + d/2 > t.
C14_RoundTieUp ==
    (res.op = "Round" /\ arg.d > 0 /\ 2 * GoRem(arg.t, arg.d) = arg.d) =>
        (res.val = arg.t + (arg.d \div 2) /\ res.val > arg.t)

\* C15: a step d <= 0 is a no-op: t.Round(d) = t and t.Truncate(d) = t, and
\* the same for MonoDuration.Round and MonoDuration.Truncate.
C15_NoStepNoOp ==
    (arg.d <= 0 /\ res.op \in {"Round", "Truncate", "DurationRound",
                               "DurationTruncate"})
        => res.val = arg.t

\* C15 witness: Round was applied to a non-zero t with a negative step.
C15_Witness == res.op = "Round" /\ arg.d < 0 /\ arg.t # 0 /\ res.val = arg.t

\* The magnitude of a machine integer.
Abs(a) == IF a >= 0 THEN a ELSE -a

\* C19: MonoDuration.Round rounds halfway values away from zero: for m > 0
\* with (d % m)*2 = m or -m, the result has magnitude |d| + m/2 and the sign
\* of d.
C19_DurationRoundTieAway ==
    (res.op = "DurationRound" /\ arg.d > 0
        /\ 2 * Abs(GoRem(arg.t, arg.d)) = arg.d) =>
        /\ Abs(res.val) = Abs(arg.t) + (arg.d \div 2)
        /\ (arg.t > 0 => res.val > 0)
        /\ (arg.t < 0 => res.val < 0)

\* C20: Round lands on the grid: for d > 0 with t + d inside the integer
\* range, t.Round(d) is an exact multiple of d, and so rounding it again
\* changes nothing.
C20_RoundOnGrid ==
    (arg.d > 0 /\ arg.t + arg.d <= MaxInt) =>
        /\ res.op = "Round" => GoRem(res.val, arg.d) = 0
        /\ res.op = "RoundRound" => res.val = Round(arg.t, arg.d)

\* C20 witness: a t off the grid was rounded up, and rounded again.
C20_Witness ==
    /\ res.op = "RoundRound" /\ arg.d > 1 /\ arg.t + arg.d <= MaxInt
    /\ GoRem(arg.t, arg.d) # 0 /\ res.val > arg.t

\* C16: Now fails fatally whenever the OS reports an error reading the
\* clock: Now never returns a value after the clock read returned an error.
C16_NowFatalOnClockError ==
    (res.op = "Now" /\ res.fault) => res.outcome = "panic"

\* C17: the goroutine leaves silently, without a panic, exactly when its
\* read fails because Stop closed the handle: the error of a read on the
\* closed handle is recognised as the closed condition, so the goroutine
\* never panics on it, and it is never stopped unless Stop closed the handle.
C17_ClosedReadExitsSilently ==
    /\ taskPc = "panic" => err.Err # "ErrClosed"
    /\ taskPc = "stopped" => closes > 0

\* C18: a read error other than the one caused by Stop closing the handle
\* panics: from the error check the goroutine can only move to the panic
\* state, with nothing sent and nothing read on the way, and after the
\* panic nothing in the process runs any more.
C18_OtherReadErrorPanics ==
    [][ /\ (taskPc = "check" /\ err # NilErr /\ err.Err # "ErrClosed")
            => /\ taskPc' \in {"check", "panic"}
               /\ sent' = sent
               /\ sumRead' = sumRead
               /\ err' = err
        /\ (taskPc = "panic" /\ err.Err # "ErrClosed") => vars' = vars ]_vars

C18_Witness == taskPc = "panic" /\ err = PathError("EIO")

====
